---- MODULE Spec2Model ----
(***************************************************************************)
(* Model of the QBR generation-and-validation pipeline:                    *)
(*   components/qbr_generator.py  (classifier, extractor, recommendations, *)
(*                                 confidence, summary, document assembly) *)
(*   prompts/qbr_prompts.py       (the prompt helpers)                     *)
(*   components/validator.py      (LLM-as-judge verdict parsing)           *)
(*   app.py                       (validate_dataframe, session cache,      *)
(*                                 batch generation loop)                  *)
(*                                                                         *)
(* Numbers are fixed point, in thousandths: 0.5 is 500, 6 is 6000, and a   *)
(* number carries its Python type ("int" or "float") because the code's    *)
(* isinstance tests depend on it.  Texts are tuples of characters so that  *)
(* lower() and the substring test `word in text` are computed.             *)
(***************************************************************************)
EXTENDS Integers, Sequences, FiniteSets, TLC

VARIABLES
    client_data,      \* the record handed to the generator's pure functions
    result,           \* what the last applied function returned
    df,               \* st.session_state.df : account -> record, or NoDf
    generated_qbrs,   \* st.session_state.generated_qbrs : account -> document
    selected_accounts,\* the multiselect of the batch view (a sequence)
    idx,              \* position of the batch loop in selected_accounts
    batch_results,    \* batch_results : account -> markdown or error message
    pc,               \* position of the session script
    single_error,     \* the st.error message of the single-account view
    visited,          \* history: accounts the batch loop has visited, in order
    backend_failed,   \* history: accounts whose generation raised in the batch
    response,         \* judge: the outcome of the validator's llm.invoke
    verdict,          \* judge: the ValidationResult returned by validate
    regenerations     \* judge: regeneration hints handed out for the document

vars == << client_data, result, df, generated_qbrs, selected_accounts, idx,
           batch_results, pc, single_error, visited, backend_failed, response,
           verdict, regenerations >>

deriveVars  == << client_data, result >>
sessionVars == << df, generated_qbrs, selected_accounts, idx, batch_results,
                  pc, single_error, visited, backend_failed >>
judgeVars   == << response, verdict, regenerations >>

----------------------------------------------------------------------------
(* Values *)

\* n/d as a fixed-point number (thousandths): Dec(1, 2) is 0.5
Dec(n, d) == (n * 1000) \div d

PyInt(n)   == [t |-> "int",   v |-> n * 1000]
PyFloat(m) == [t |-> "float", v |-> m]
Text(s)  == [t |-> "text",  s |-> s]
Str(s)   == [t |-> "str",   n |-> s]
Absent   == [t |-> "absent"]
\* an empty spreadsheet cell as pandas delivers it: float('nan')
NaN      == [t |-> "nan"]

\* isinstance(x, float) and isinstance(x, (int, float)), for the numeric fields
IsFloat(x)  == x.t = "float"
IsNumber(x) == x.t \in {"int", "float"}
Abs(m)      == IF m < 0 THEN -m ELSE m

\* dict.get(key, default)
Get(d, key, default) == IF d[key] = Absent THEN default ELSE d[key]

\* x * 100 and x / 100 (true division: the result is a float)
Times100(x) == PyFloat(x.v * 100)
Over100(x)  == PyFloat(x.v \div 100)

Min(a, b) == IF a < b THEN a ELSE b

\* x in list
InSeq(x, s) == \E i \in 1..Len(s) : s[i] = x

\* list[:n]
Take(s, n) == SubSeq(s, 1, Min(n, Len(s)))

\* a call that returned val / a call that raised exc
Returned(val) == [ok |-> TRUE,  val |-> val]
Raised(exc)   == [ok |-> FALSE, val |-> exc]

----------------------------------------------------------------------------
(* Strings: str.lower() and the substring test *)

\* the lower-case letter of each upper-case letter
LowerMap ==
    LET UpperChars == << "A","B","C","D","E","F","G","H","I","J","K","L","M",
                         "N","O","P","Q","R","S","T","U","V","W","X","Y","Z" >>
        LowerChars == << "a","b","c","d","e","f","g","h","i","j","k","l","m",
                         "n","o","p","q","r","s","t","u","v","w","x","y","z" >>
    IN  [ c \in { UpperChars[i] : i \in 1..Len(UpperChars) } |->
            LowerChars[CHOOSE i \in 1..Len(UpperChars) : UpperChars[i] = c] ]

LowerChar(c) == IF c \in DOMAIN LowerMap THEN LowerMap[c] ELSE c

\* s.lower()
Lower(s) == [i \in 1..Len(s) |-> LowerChar(s[i])]

\* word in s
Contains(s, word) ==
    \E i \in 0..(Len(s) - Len(word)) : SubSeq(s, i + 1, i + Len(word)) = word

W_integration == << "i","n","t","e","g","r","a","t","i","o","n" >>
W_connect     == << "c","o","n","n","e","c","t" >>

\* ['competitor', 'leaving', 'cancel', 'frustrated']
RiskKeywords ==
    << << "c","o","m","p","e","t","i","t","o","r" >>,
       << "l","e","a","v","i","n","g" >>,
       << "c","a","n","c","e","l" >>,
       << "f","r","u","s","t","r","a","t","e","d" >> >>

\* f"{x:.<digits>f}": round to a multiple of unit (half to even)
RoundTo(m, unit) ==
    LET q == m \div unit
        r == m % unit
    IN  IF 2 * r > unit THEN (q + 1) * unit
        ELSE IF 2 * r < unit THEN q * unit
        ELSE IF q % 2 = 0 THEN q * unit ELSE (q + 1) * unit

----------------------------------------------------------------------------
(* QBRGenerator.classify_story_type *)

\* the turnaround rule tried before the growth rule
classify_story_type_reordered(d) ==
    LET risk        == Get(d, "risk_engine_score", PyFloat(Dec(1, 2)))
        growth0     == Get(d, "usage_growth_qoq", PyInt(0))
        automation0 == Get(d, "automation_adoption_pct", PyInt(0))
        nps         == Get(d, "nps_score", PyInt(5))
        scat        == Get(d, "scat_score", PyInt(50))
        growth      == IF IsNumber(growth0) /\ Abs(growth0.v) > Dec(1, 1)
                       THEN Over100(growth0) ELSE growth0
        automation  == IF IsNumber(automation0) /\ automation0.v > Dec(1, 1)
                       THEN Over100(automation0) ELSE automation0
    IN  IF risk.v >= Dec(1, 2) \/ growth.v < -Dec(1, 10) \/ nps.v < Dec(6, 1)
        THEN "at_risk"
        ELSE IF scat.v < Dec(60, 1) /\ growth.v > 0
        THEN "turnaround"
        ELSE IF /\ risk.v < Dec(3, 10)
                /\ growth.v > Dec(1, 10)
                /\ automation.v > Dec(1, 2)
                /\ nps.v > Dec(7, 1)
        THEN "growth"
        ELSE "stable"

classify_story_type(d) ==
    LET risk        == Get(d, "risk_engine_score", PyFloat(Dec(1, 2)))
        growth0     == Get(d, "usage_growth_qoq", PyInt(0))
        automation0 == Get(d, "automation_adoption_pct", PyInt(0))
        nps         == Get(d, "nps_score", PyInt(5))
        scat        == Get(d, "scat_score", PyInt(50))
        growth      == IF IsNumber(growth0) /\ Abs(growth0.v) > Dec(1, 1)
                       THEN Over100(growth0) ELSE growth0
        automation  == IF IsNumber(automation0) /\ automation0.v > Dec(1, 1)
                       THEN Over100(automation0) ELSE automation0
    IN  IF risk.v >= Dec(1, 2) \/ growth.v < -Dec(1, 10) \/ nps.v < Dec(6, 1)
        THEN "at_risk"
        ELSE IF /\ risk.v < Dec(3, 10)
                /\ growth.v > Dec(1, 10)
                /\ automation.v > Dec(1, 2)
                /\ nps.v > Dec(7, 1)
        THEN "growth"
        ELSE IF scat.v < Dec(60, 1) /\ growth.v > 0
        THEN "turnaround"
        ELSE "stable"

----------------------------------------------------------------------------
(* QBRGenerator._extract_metrics *)

\* MetricHighlight; value is the number the f-string prints, with its suffix
MetricHighlight(name, value, suffix, interpretation, sentiment) ==
    [metric_name |-> name, value |-> value, suffix |-> suffix,
     interpretation |-> interpretation, sentiment |-> sentiment]

_extract_metrics(d) ==
    LET growth     == Get(d, "usage_growth_qoq", PyInt(0))
        growth_pct == IF IsFloat(growth) /\ Abs(growth.v) <= Dec(1, 1)
                      THEN Times100(growth) ELSE growth
        automation == Get(d, "automation_adoption_pct", PyInt(0))
        automation_pct == IF IsFloat(automation) /\ automation.v <= Dec(1, 1)
                          THEN Times100(automation) ELSE automation
        nps   == Get(d, "nps_score", PyInt(0))
        users == Get(d, "active_users", PyInt(0))
        plan  == Get(d, "plan_type", Str("Unknown"))
    IN  Returned(<<
          MetricHighlight("Usage Growth (QoQ)",
              PyFloat(RoundTo(growth_pct.v, Dec(1, 10))), "%",
              IF growth_pct.v > Dec(10, 1) THEN "Strong expansion"
              ELSE IF growth_pct.v < -Dec(5, 1) THEN "Declining usage"
              ELSE "Stable usage",
              IF growth_pct.v > Dec(5, 1) THEN "positive"
              ELSE IF growth_pct.v < -Dec(5, 1) THEN "negative"
              ELSE "neutral"),
          MetricHighlight("Automation Adoption",
              PyFloat(RoundTo(automation_pct.v, Dec(1, 1))), "%",
              IF automation_pct.v > Dec(60, 1) THEN "Power user"
              ELSE IF automation_pct.v < Dec(30, 1) THEN "Growth opportunity"
              ELSE "Moderate adoption",
              IF automation_pct.v > Dec(50, 1) THEN "positive"
              ELSE IF automation_pct.v < Dec(20, 1) THEN "negative"
              ELSE "neutral"),
          MetricHighlight("NPS Score", nps, "/10",
              IF nps.v >= Dec(8, 1) THEN "Promoter"
              ELSE IF nps.v < Dec(6, 1) THEN "Detractor"
              ELSE "Passive",
              IF nps.v >= Dec(8, 1) THEN "positive"
              ELSE IF nps.v < Dec(6, 1) THEN "negative"
              ELSE "neutral"),
          MetricHighlight("Active Users", users, "",
              << plan.n,
                 IF users.v > Dec(100, 1) THEN "strong"
                 ELSE IF users.v > Dec(30, 1) THEN "moderate"
                 ELSE "small" >>,
              IF users.v > Dec(50, 1) THEN "positive" ELSE "neutral")
        >>)

----------------------------------------------------------------------------
(* QBRGenerator._identify_risks *)

\* data_signal = f"<field> = <value><suffix>"
Signal(field, value, suffix) == [field |-> field, value |-> value, suffix |-> suffix]
\* data_signal = "feedback_summary contains risk keywords": no value is printed
NoValue == [t |-> "none"]

RiskItem(title, severity, data_signal) ==
    [risk_title |-> title, severity |-> severity, data_signal |-> data_signal]

\* any(word in feedback for word in [...])
AnyKeyword(feedback, words) ==
    \E k \in 1..Len(words) : Contains(feedback, words[k])

\* the bound of the high band included
UsageDeclineSeverity_inclusive(growth) ==
    IF growth.v <= -Dec(15, 1) THEN "high" ELSE "medium"

\* line 346
UsageDeclineSeverity(growth) == IF growth.v < -Dec(15, 1) THEN "high" ELSE "medium"

_identify_risks(d) ==
    LET risk_score == Get(d, "risk_engine_score", PyInt(0))
        r1 == IF risk_score.v >= Dec(1, 2)
              THEN << RiskItem("Elevated Churn Risk",
                          IF risk_score.v >= Dec(7, 10) THEN "high" ELSE "medium",
                          Signal("risk_engine_score", risk_score, "")) >>
              ELSE << >>
        tickets == Get(d, "tickets_last_quarter", PyInt(0))
        r2 == IF tickets.v > Dec(50, 1)
              THEN << RiskItem("High Support Volume",
                          IF tickets.v > Dec(80, 1) THEN "high" ELSE "medium",
                          Signal("tickets_last_quarter", tickets, "")) >>
              ELSE << >>
        growth0 == Get(d, "usage_growth_qoq", PyInt(0))
        growth  == IF IsFloat(growth0) /\ Abs(growth0.v) <= Dec(1, 1)
                   THEN Times100(growth0) ELSE growth0
        r3 == IF growth.v < -Dec(5, 1)
              THEN << RiskItem("Usage Decline",
                          UsageDeclineSeverity(growth),
                          Signal("usage_growth_qoq", growth, "%")) >>
              ELSE << >>
        nps == Get(d, "nps_score", PyInt(0))
        r4 == IF nps.v < Dec(6, 1)
              THEN << RiskItem("Customer Dissatisfaction",
                          IF nps.v < Dec(5, 1) THEN "high" ELSE "medium",
                          Signal("nps_score", nps, "")) >>
              ELSE << >>
        feedback0 == Get(d, "feedback_summary", Text(<< >>))
    IN  IF feedback0.t # "text"
        THEN Raised("AttributeError")       \* float has no attribute 'lower'
        ELSE LET feedback == Lower(feedback0.s)
                 r5 == IF AnyKeyword(feedback, RiskKeywords)
                       THEN << RiskItem("Competitive Threat", "high",
                                   Signal("feedback_summary", NoValue, "")) >>
                       ELSE << >>
             IN  Returned(r1 \o r2 \o r3 \o r4 \o r5)

----------------------------------------------------------------------------
(* QBRGenerator._build_recommendations *)

ActionItem(title, owner, priority) ==
    [action_title |-> title, owner |-> owner, priority |-> priority]

\* the generic follow-up appended when fewer than 3 rules fired
QuarterlySuccessReview == ActionItem("Quarterly Success Review", "CSM", "short-term")

\* the backfill left out
Backfill_none(recommendations) == recommendations

\* lines 433-441: one append, guarded by len(recommendations) < 3
Backfill(recommendations) ==
    IF Len(recommendations) < 3
    THEN Append(recommendations, QuarterlySuccessReview)
    ELSE recommendations

\* the last three instead of the first three
TopThree_last(recommendations) ==
    SubSeq(recommendations, Len(recommendations) - Min(Len(recommendations), 3) + 1,
           Len(recommendations))

\* line 443: recommendations[:3], in discovery order
TopThree(recommendations) ==
    Take(recommendations, 3)

\* lines 374-431: the actions of the rules that fire, in discovery order
\* (evaluated only when feedback_summary is a str)
TriggeredActions(d) ==
    LET risk_score == Get(d, "risk_engine_score", PyInt(0))
        a1 == IF risk_score.v >= Dec(1, 2)
              THEN << ActionItem("Executive Escalation Call", "CSM", "immediate") >>
              ELSE << >>
        automation0 == Get(d, "automation_adoption_pct", PyInt(0))
        automation  == IF IsFloat(automation0) /\ automation0.v <= Dec(1, 1)
                       THEN Times100(automation0) ELSE automation0
        a2 == IF automation.v < Dec(40, 1)
              THEN << ActionItem("Automation Workshop", "CSM", "short-term") >>
              ELSE << >>
        feedback == Get(d, "feedback_summary", Text(<< >>))
        a3 == IF \/ Contains(Lower(feedback.s), W_integration)
                 \/ Contains(Lower(feedback.s), W_connect)
              THEN << ActionItem("Integration Deep-Dive", "CSM", "short-term") >>
              ELSE << >>
        nps == Get(d, "nps_score", PyInt(0))
        a4 == IF nps.v >= Dec(8, 1) /\ risk_score.v < Dec(3, 10)
              THEN << ActionItem("Expansion Discussion", "CSM", "short-term") >>
              ELSE << >>
        tickets == Get(d, "tickets_last_quarter", PyInt(0))
        a5 == IF tickets.v > Dec(40, 1)
              THEN << ActionItem("Support Ticket Review", "Support",
                          IF tickets.v > Dec(70, 1) THEN "immediate" ELSE "short-term") >>
              ELSE << >>
    IN  a1 \o a2 \o a3 \o a4 \o a5

_build_recommendations(d) ==
    IF Get(d, "feedback_summary", Text(<< >>)).t # "text"
    THEN Raised("AttributeError")           \* float has no attribute 'lower'
    ELSE Returned(TopThree(Backfill(TriggeredActions(d))))

----------------------------------------------------------------------------
(* Input records *)

T_empty     == << >>
T_fine      == << "f","i","n","e" >>
T_leaving   == << "L","e","a","v","i","n","g" >>
T_reconnect == << "R","e","c","o","n","n","e","c","t" >>
T_cancel_integration ==
    << "C","A","N","C","E","L"," ","I","n","t","e","g","r","a","t","i","o","n" >>

FeedbackTexts == { T_empty, T_leaving, T_reconnect, T_cancel_integration }

RiskValues   == { PyFloat(Dec(2, 10)), PyFloat(Dec(3, 10)),
                  PyFloat(Dec(1, 2)),  PyFloat(Dec(7, 10)) }
\* fractions (float), whole numbers (int) and percentages
GrowthValues == { PyFloat(-Dec(2, 10)), PyFloat(-Dec(15, 100)), PyFloat(-Dec(1, 10)),
                  PyFloat(-Dec(5, 100)), PyFloat(Dec(15, 100)),
                  PyInt(-1), PyFloat(-Dec(12, 1)), PyInt(15) }
AutomationValues == { PyFloat(Dec(2, 10)), PyFloat(Dec(4, 10)), PyFloat(Dec(6, 10)),
                      PyInt(1), PyFloat(Dec(60, 1)) }
NpsValues     == { PyInt(4), PyInt(5), PyInt(6), PyInt(8) }
ScatValues    == { PyInt(50), PyInt(60) }
TicketValues  == { PyInt(40), PyInt(41), PyInt(51), PyInt(71), PyInt(81) }
UserValues    == { PyInt(0), PyInt(50) }
PlanValues    == { Str("Basic"), Str("Pro") }

AccountRecord(plan, users, growth, automation, tickets, nps, scat, risk, feedback) ==
    [ account_name            |-> Str("Acme"),
      plan_type               |-> plan,
      active_users            |-> users,
      usage_growth_qoq        |-> growth,
      automation_adoption_pct |-> automation,
      tickets_last_quarter    |-> tickets,
      avg_response_time       |-> PyFloat(Dec(45, 10)),
      nps_score               |-> nps,
      preferred_channel       |-> Str("Email"),
      scat_score              |-> scat,
      risk_engine_score       |-> risk,
      crm_notes               |-> Text(T_fine),
      feedback_summary        |-> feedback ]

\* every combination of the fields classify_story_type reads
ClassifierRecords ==
    { AccountRecord(Str("Basic"), PyInt(50), g, a, PyInt(40), n, sc, r, Text(T_empty)) :
        g \in GrowthValues, a \in AutomationValues, n \in NpsValues,
        sc \in ScatValues, r \in RiskValues }

\* every combination of the fields _identify_risks and _build_recommendations read
ExtractorRecords ==
    { AccountRecord(Str("Basic"), PyInt(50), g, a, tk, n, PyInt(60), r, Text(f)) :
        g \in GrowthValues, a \in AutomationValues, tk \in TicketValues,
        n \in NpsValues, r \in RiskValues, f \in FeedbackTexts }

CompleteRecords == ClassifierRecords \cup ExtractorRecords

\* a few records on which the remaining variations are made
SampleRecords ==
    { AccountRecord(p, u, g, PyFloat(Dec(2, 10)), tk, n, PyInt(50), r, Text(T_leaving)) :
        p \in PlanValues, u \in UserValues,
        g \in { PyFloat(-Dec(15, 100)), PyFloat(Dec(15, 100)) },
        tk \in { PyInt(5), PyInt(51) }, n \in { PyInt(5), PyInt(8) },
        r \in { PyFloat(Dec(2, 10)), PyFloat(Dec(55, 100)) } }

NumericFields == { "active_users", "usage_growth_qoq", "automation_adoption_pct",
                   "tickets_last_quarter", "avg_response_time", "nps_score",
                   "scat_score", "risk_engine_score" }
TextFields    == { "crm_notes", "feedback_summary" }
LabelFields   == { "account_name", "plan_type", "preferred_channel" }

\* the thirteen columns of a customer record
REQUIRED_COLUMNS == NumericFields \cup TextFields \cup LabelFields

\* records lacking one field, and records with an empty free-text cell
IncompleteRecords ==
    { [r EXCEPT ![f] = Absent] :
        r \in SampleRecords, f \in NumericFields \cup TextFields \cup LabelFields }
NullTextRecords ==
    { [r EXCEPT ![f] = NaN] : r \in SampleRecords, f \in TextFields }

\* a text of n characters
Filler(n) == Text([i \in 1..n |-> "x"])

\* records with several fields missing and with notes and feedback on both
\* sides of the lengths _calculate_confidence rewards
ConfidenceRecords ==
    { [ f \in DOMAIN r |->
          IF f \in missing THEN Absent
          ELSE IF f = "crm_notes" THEN notes
          ELSE IF f = "feedback_summary" THEN feedback
          ELSE r[f] ] :
        r \in { AccountRecord(Str("Pro"), PyInt(50), PyFloat(Dec(15, 100)),
                              PyFloat(Dec(6, 10)), PyInt(5), PyInt(8), PyInt(60),
                              PyFloat(Dec(2, 10)), Text(T_fine)) },
        missing \in SUBSET { "account_name", "nps_score", "scat_score", "crm_notes" },
        notes \in { Text(T_fine), Filler(50), Filler(51) },
        feedback \in { Text(T_leaving), Filler(30), Filler(31) } }
    \cup { [ f \in REQUIRED_COLUMNS |-> Absent ] }

\* records whose growth or automation cell is a whole number
WholeNumberRecords ==
    { AccountRecord(Str("Pro"), PyInt(50), g, a, PyInt(5), PyInt(8), PyInt(60),
                    PyFloat(Dec(2, 10)), Text(T_fine)) :
        g \in { PyInt(-1), PyInt(0), PyInt(1), PyFloat(-Dec(1, 1)), PyFloat(Dec(1, 1)) },
        a \in { PyInt(0), PyInt(1), PyFloat(Dec(1, 1)) } }

Records == CompleteRecords \cup SampleRecords \cup IncompleteRecords \cup NullTextRecords

\* the records one generation is tried on
GenerationRecords ==
    SampleRecords \cup IncompleteRecords \cup NullTextRecords
    \cup ConfidenceRecords \cup WholeNumberRecords

IsComplete(d) == \A f \in NumericFields \cup TextFields : d[f] # Absent

----------------------------------------------------------------------------
(* prompts/qbr_prompts.py: the prompt helpers *)

\* the defaults of get_full_qbr_prompt and get_insight_prompt
PromptDefaults ==
    [ account_name            |-> Str("Unknown Account"),
      plan_type               |-> Str("Unknown"),
      active_users            |-> PyInt(0),
      usage_growth_qoq        |-> PyInt(0),
      automation_adoption_pct |-> PyInt(0),
      tickets_last_quarter    |-> PyInt(0),
      avg_response_time       |-> PyInt(0),
      nps_score               |-> PyInt(0),
      preferred_channel       |-> Str("Email"),
      scat_score              |-> PyInt(0),
      risk_engine_score       |-> PyInt(0),
      crm_notes               |-> Str("No notes available."),
      feedback_summary        |-> Str("No feedback recorded.") ]

\* the defaults of get_recommendation_prompt: no preferred_channel, no scat_score
RecommendationDefaults ==
    [ PromptDefaults EXCEPT !.preferred_channel = Absent, !.scat_score = Absent ]

\* {**defaults, **client_data}
Merged(defaults, d) ==
    [ f \in DOMAIN defaults |-> IF d[f] # Absent THEN d[f] ELSE defaults[f] ]

\* the ticket count itself when there are no users
TicketsPerUser_count(tickets, users) ==
    IF users.v > 0 THEN PyFloat((tickets.v * 1000) \div users.v) ELSE tickets

\* tickets / users if users > 0 else 0
TicketsPerUser(tickets, users) ==
    IF users.v > 0 THEN PyFloat((tickets.v * 1000) \div users.v) ELSE PyInt(0)

\* "Convert decimal percentages to display percentages"
DisplayGrowth(x)     == IF IsFloat(x) /\ Abs(x.v) <= Dec(1, 1) THEN Times100(x) ELSE x
DisplayAutomation(x) == IF IsFloat(x) /\ x.v <= Dec(1, 1) THEN Times100(x) ELSE x

\* formatted_data as the helpers hand it to str.format
FormattedData(defaults, d) ==
    LET merged == Merged(defaults, d)
    IN  [ f \in DOMAIN merged \cup {"tickets_per_user"} |->
            IF f = "tickets_per_user"
            THEN TicketsPerUser(merged.tickets_last_quarter, merged.active_users)
            ELSE IF f = "usage_growth_qoq" THEN DisplayGrowth(merged[f])
            ELSE IF f = "automation_adoption_pct" THEN DisplayAutomation(merged[f])
            ELSE merged[f] ]

\* the placeholders of FULL_QBR_PROMPT, INSIGHT_EXTRACTOR_PROMPT and
\* RECOMMENDATION_ENGINE_PROMPT
FullQbrFields ==
    { "account_name", "plan_type", "active_users", "usage_growth_qoq",
      "automation_adoption_pct", "tickets_last_quarter", "tickets_per_user",
      "avg_response_time", "nps_score", "preferred_channel", "scat_score",
      "risk_engine_score", "crm_notes", "feedback_summary" }
RecommendationFields == FullQbrFields \ { "preferred_channel", "scat_score" }

\* {tickets_per_user:.2f}; the other placeholders carry no format
Shown(f, x) == IF f = "tickets_per_user" THEN PyFloat(RoundTo(x.v, 10)) ELSE x

\* TEMPLATE.format(**formatted_data): a placeholder without a key is a KeyError
Format(template, fields, data) ==
    IF \E f \in fields : data[f] = Absent
    THEN Raised("KeyError")
    ELSE Returned([ template |-> template,
                    values   |-> [ f \in fields |-> Shown(f, data[f]) ] ])

get_full_qbr_prompt(d) ==
    Format("FULL_QBR_PROMPT", FullQbrFields, FormattedData(PromptDefaults, d))

get_insight_prompt(d) ==
    Format("INSIGHT_EXTRACTOR_PROMPT", FullQbrFields, FormattedData(PromptDefaults, d))

get_recommendation_prompt(d) ==
    Format("RECOMMENDATION_ENGINE_PROMPT", RecommendationFields,
           FormattedData(RecommendationDefaults, d))

----------------------------------------------------------------------------
(* QBRGenerator._build_next_steps *)

\* the three steps listed for a category; the at_risk list names the account,
\* the growth and stable lists name the preferred channel
_build_next_steps(d, story_type) ==
    LET account == Get(d, "account_name", Str("Customer"))
        channel == Get(d, "preferred_channel", Str("Email"))
    IN  IF story_type = "at_risk"
        THEN << [step |-> "Schedule urgent call", with |-> account],
                [step |-> "Prepare risk mitigation plan"],
                [step |-> "Loop in account executive and support lead"] >>
        ELSE IF story_type = "growth"
        THEN << [step |-> "Send executive summary", via |-> channel],
                [step |-> "Schedule expansion discussion"],
                [step |-> "Identify case study opportunity"] >>
        ELSE IF story_type = "turnaround"
        THEN << [step |-> "Document recovery progress"],
                [step |-> "Schedule check-in call"],
                [step |-> "Identify additional success metrics"] >>
        ELSE << [step |-> "Send QBR summary", via |-> channel],
                [step |-> "Schedule routine check-in"],
                [step |-> "Explore one new feature or use case"] >>

----------------------------------------------------------------------------
(* QBRGenerator._calculate_confidence *)

required_fields ==
    << "account_name", "plan_type", "active_users", "usage_growth_qoq",
       "automation_adoption_pct", "tickets_last_quarter", "nps_score",
       "risk_engine_score", "crm_notes", "feedback_summary" >>

\* sum(1 for f in required_fields if client_data.get(f) is not None)
RECURSIVE Present(_, _)
Present(d, k) ==
    IF k > Len(required_fields) THEN 0
    ELSE (IF d[required_fields[k]] # Absent THEN 1 ELSE 0) + Present(d, k + 1)

\* the bonus granted from notes of exactly 50 and feedback of exactly 30 characters
QualityBonus_inclusive(crm_notes, feedback) ==
    (IF Len(crm_notes.s) >= 50 THEN Dec(5, 100) ELSE 0)
    + (IF Len(feedback.s) >= 30 THEN Dec(5, 100) ELSE 0)

\* quality_bonus: 0.05 for notes over 50 characters, 0.05 for feedback over 30
QualityBonus(crm_notes, feedback) ==
    (IF Len(crm_notes.s) > 50 THEN Dec(5, 100) ELSE 0)
    + (IF Len(feedback.s) > 30 THEN Dec(5, 100) ELSE 0)

\* the score, in thousandths; len() of an empty cell (a float) is a TypeError
_calculate_confidence(d) ==
    LET present     == Present(d, 1)
        crm_notes   == Get(d, "crm_notes", Text(<< >>))
        feedback    == Get(d, "feedback_summary", Text(<< >>))
    IN  IF crm_notes.t # "text" \/ feedback.t # "text"
        THEN Raised("TypeError")
        ELSE Returned(PyFloat(Min(Dec(1, 1),
                                  (present * Dec(9, 10)) \div Len(required_fields)
                                  + QualityBonus(crm_notes, feedback))))

----------------------------------------------------------------------------
(* QBRGenerator._extract_summary *)

W_summary == << "s","u","m","m","a","r","y" >>

\* documents of the generation backend: an empty text, a text without a
\* summary section, a summary section of three paragraphs, one ended by the
\* next heading, one that is empty, a title naming the summary ahead of
\* another section, and a summary paragraph using the word itself
M_empty     == ""
M_plain     == "# QBR\nRenewal due."
M_summary   == "# QBR\n## Executive Summary\n\nGood.\n Usage up. \nMore.\n## Next"
M_short     == "## Executive Summary\nGood.\n## Next\nRenewal due."
M_hollow    == "## Executive Summary\n## Next\nRenewal due."
M_titled    == "# QBR Summary\n## Overview\nRenewal due.\n## Executive Summary\nGood.\n## Next"
M_recap     == "## Executive Summary\nIn summary, good.\n## Next"

\* markdown.split('\n'), for these documents
Split ==
    LET L_blank   == << >>
        L_title   == << "#"," ","Q","B","R" >>
        L_heading == << "#","#"," ","E","x","e","c","u","t","i","v","e"," ",
                        "S","u","m","m","a","r","y" >>
        L_good    == << "G","o","o","d","." >>
        L_usage   == << " ","U","s","a","g","e"," ","u","p","."," " >>
        L_more    == << "M","o","r","e","." >>
        L_next    == << "#","#"," ","N","e","x","t" >>
        L_plain   == << "R","e","n","e","w","a","l"," ","d","u","e","." >>
        L_stitle  == << "#"," ","Q","B","R"," ","S","u","m","m","a","r","y" >>
        L_over    == << "#","#"," ","O","v","e","r","v","i","e","w" >>
        L_recap   == << "I","n"," ","s","u","m","m","a","r","y",","," ","g","o","o","d","." >>
    IN  (M_empty :> << L_blank >>)
        @@ (M_plain   :> << L_title, L_plain >>)
        @@ (M_summary :> << L_title, L_heading, L_blank, L_good, L_usage, L_more, L_next >>)
        @@ (M_short   :> << L_heading, L_good, L_next, L_plain >>)
        @@ (M_hollow  :> << L_heading, L_next, L_plain >>)
        @@ (M_titled  :> << L_stitle, L_over, L_plain, L_heading, L_good, L_next >>)
        @@ (M_recap   :> << L_heading, L_recap, L_next >>)

\* line.startswith('#')
StartsWith(line, c) == Len(line) > 0 /\ line[1] = c

\* line.strip()
Strip(line) ==
    LET inked == { i \in 1..Len(line) : line[i] # " " }
    IN  IF inked = {} THEN << >>
        ELSE SubSeq(line, CHOOSE i \in inked : \A j \in inked : i <= j,
                          CHOOSE i \in inked : \A j \in inked : i >= j)

\* ' '.join(summary_lines)
RECURSIVE Join(_)
Join(texts) ==
    IF Len(texts) = 0 THEN << >>
    ELSE IF Len(texts) = 1 THEN texts[1]
    ELSE texts[1] \o << " " >> \o Join(Tail(texts))

\* the for loop over the lines: summary_lines when it ends or breaks
RECURSIVE SummaryLines(_, _, _, _)
SummaryLines(lines, k, in_summary, summary_lines) ==
    IF k > Len(lines) THEN summary_lines
    ELSE IF Contains(Lower(lines[k]), W_summary)
    THEN SummaryLines(lines, k + 1, TRUE, summary_lines)
    ELSE IF ~in_summary
    THEN SummaryLines(lines, k + 1, FALSE, summary_lines)
    ELSE IF StartsWith(lines[k], "#")
    THEN summary_lines
    ELSE LET collected == IF Strip(lines[k]) # << >>
                          THEN Append(summary_lines, Strip(lines[k]))
                          ELSE summary_lines
         IN  IF Len(collected) >= 2 THEN collected
             ELSE SummaryLines(lines, k + 1, TRUE, collected)

\* story_descriptions[story]: the sentence written for a category; the growth
\* sentence prints f"{growth:+.0f}%"
StoryDescription(story, account, growth) ==
    IF story = "growth"
    THEN [t |-> "sentence", sentence |-> "had an excellent quarter",
          account |-> account, growth |-> RoundTo(growth.v, 1000)]
    ELSE IF story = "turnaround"
    THEN [t |-> "sentence", sentence |-> "shows signs of recovery", account |-> account]
    ELSE IF story = "stable"
    THEN [t |-> "sentence", sentence |-> "maintained consistent usage",
          account |-> account]
    ELSE [t |-> "sentence", sentence |-> "requires immediate attention",
          account |-> account]

\* the summary taken from the prose even when the prose has none
_extract_summary_no_fallback(markdown, d) ==
    Text(Join(SummaryLines(Split[markdown], 1, FALSE, << >>)))

_extract_summary(markdown, d) ==
    LET summary_lines == SummaryLines(Split[markdown], 1, FALSE, << >>)
        account       == Get(d, "account_name", Str("This account"))
        growth        == Get(d, "usage_growth_qoq", PyInt(0))
        growth_pct    == IF IsFloat(growth) /\ Abs(growth.v) <= Dec(1, 1)
                         THEN Times100(growth) ELSE growth
    IN  IF Len(summary_lines) > 0
        THEN Text(Join(summary_lines))
        ELSE StoryDescription(classify_story_type(d), account, growth_pct)

----------------------------------------------------------------------------
(* QBRGenerator.generate_structured_qbr *)

Markdowns == { M_empty, M_plain, M_summary, M_short, M_hollow, M_titled, M_recap }

\* texts the generation backend returns in the session
Prose == { M_summary, M_plain }

\* llm.invoke of the generator either raises or returns prose
BackendOutcomes == { [kind |-> "raise"] } \cup { [kind |-> "text", content |-> p] : p \in Prose }

\* a document whose confidence is withdrawn when the backend wrote nothing
QBROutput_graded(account_name, executive_summary, story_type, key_metrics, risks, recommendations, next_steps, confidence_score, raw_markdown) ==
    [account_name |-> account_name, executive_summary |-> executive_summary,
     story_type |-> story_type, key_metrics |-> key_metrics, risks |-> risks,
     recommendations |-> recommendations, next_steps |-> next_steps,
     confidence_score |-> IF raw_markdown = M_empty THEN PyFloat(0) ELSE confidence_score,
     raw_markdown |-> raw_markdown]

QBROutput(account_name, executive_summary, story_type, key_metrics, risks, recommendations, next_steps, confidence_score, raw_markdown) ==
    [account_name |-> account_name, executive_summary |-> executive_summary,
     story_type |-> story_type, key_metrics |-> key_metrics, risks |-> risks,
     recommendations |-> recommendations, next_steps |-> next_steps,
     confidence_score |-> confidence_score, raw_markdown |-> raw_markdown]

generate_structured_qbr(d, backend) ==
    IF backend.kind = "raise"
    THEN Raised("backend")                    \* generate_qbr_markdown, line 133
    ELSE LET raw_markdown    == backend.content
             story_type      == classify_story_type(d)
             key_metrics     == _extract_metrics(d)
             risks           == _identify_risks(d)
             recommendations == _build_recommendations(d)
             next_steps      == _build_next_steps(d, story_type)
             confidence      == _calculate_confidence(d)
             exec_summary    == _extract_summary(raw_markdown, d)
         IN  IF ~risks.ok THEN Raised(risks.val)
             ELSE IF ~recommendations.ok THEN Raised(recommendations.val)
             ELSE IF ~confidence.ok THEN Raised(confidence.val)
             ELSE Returned(QBROutput(Get(d, "account_name", Str("Unknown")),
                                     exec_summary, story_type, key_metrics.val,
                                     risks.val, recommendations.val, next_steps,
                                     confidence.val, raw_markdown))

----------------------------------------------------------------------------
(* app.py: the session *)

\* number of accounts in a dataset
MaxAccounts == 3

Accounts == 1..MaxAccounts

AccountName(a) == [t |-> "account", id |-> a]

HealthyRecord ==
    AccountRecord(Str("Pro"), PyInt(50), PyFloat(Dec(15, 100)), PyFloat(Dec(6, 10)),
                  PyInt(5), PyInt(8), PyInt(60), PyFloat(Dec(2, 10)), Text(T_fine))
AtRiskRecord ==
    AccountRecord(Str("Basic"), PyInt(50), PyFloat(-Dec(12, 100)), PyFloat(Dec(2, 10)),
                  PyInt(60), PyInt(5), PyInt(50), PyFloat(Dec(55, 100)), Text(T_leaving))
\* a row whose feedback cell is empty
NoFeedbackRecord ==
    AccountRecord(Str("Basic"), PyInt(0), PyFloat(0), PyFloat(Dec(4, 10)),
                  PyInt(5), PyInt(6), PyInt(60), PyFloat(Dec(3, 10)), NaN)

\* two spreadsheets with the same account names
Dataset(quarter) ==
    [a \in Accounts |->
        [ (IF quarter = "q3"
           THEN (IF a % 2 = 1 THEN HealthyRecord ELSE AtRiskRecord)
           ELSE (IF a = 1 THEN AtRiskRecord
                 ELSE IF a = 2 THEN NoFeedbackRecord ELSE HealthyRecord))
          EXCEPT !.account_name = AccountName(a) ]]

Datasets == { Dataset("q3"), Dataset("q4") }

\* the accounts of S in the order of the spreadsheet (the multiselect's
\* default order), and in the opposite order
Ascending(S) ==
    CHOOSE sel \in [1..Cardinality(S) -> S] :
        \A i, j \in 1..Cardinality(S) : i < j => sel[i] < sel[j]
Reverse(sel) == [i \in 1..Len(sel) |-> sel[Len(sel) + 1 - i]]

\* the values of the multiselect: every non-empty set of accounts in the
\* spreadsheet's order, and all accounts in the opposite order
Selections ==
    { Ascending(S) : S \in (SUBSET Accounts) \ {{}} } \cup
    { Reverse(Ascending(Accounts)) }

\* no dataset (None); validate_dataframe treats it as a spreadsheet without rows
NoDf       == << >>
NoEntry    == [t |-> "none"]
NoResult   == [fn |-> "none"]
NoResponse == [kind |-> "none"]
NoVerdict  == [t |-> "none"]

\* batch_results[account] = f"Error generating QBR: {e}"
ErrorMessage(exc) == [t |-> "error", exc |-> exc]

\* batch_results[account] after one iteration (lines 1065 and 1071)
BatchResult(outcome) ==
    IF outcome.ok THEN Text(outcome.val.raw_markdown) ELSE ErrorMessage(outcome.val)

\* a failed generation removing the account's entry
Cached_evict(cache, account, outcome) ==
    [cache EXCEPT ![account] = IF outcome.ok THEN outcome.val ELSE NoEntry]

\* st.session_state.generated_qbrs after one generation (lines 850 and 1068)
Cached(cache, account, outcome) ==
    IF outcome.ok THEN [cache EXCEPT ![account] = outcome.val] ELSE cache

\* an exception leaving the loop
LoopNext_abort(i, n, outcome) == IF outcome.ok THEN i + 1 ELSE n

\* the for loop goes on to the next account whatever the outcome (line 1057)
LoopNext(i, n, outcome) == i + 1

----------------------------------------------------------------------------
(* app.py: validate_dataframe *)

\* min_val / max_val is None
NoBound == [t |-> "None"]

numeric_columns ==
    << [col |-> "active_users",            min_val |-> PyInt(0),  max_val |-> NoBound],
       [col |-> "usage_growth_qoq",        min_val |-> PyInt(-1), max_val |-> PyInt(1)],
       [col |-> "automation_adoption_pct", min_val |-> PyInt(0),  max_val |-> PyInt(1)],
       [col |-> "tickets_last_quarter",    min_val |-> PyInt(0),  max_val |-> NoBound],
       [col |-> "avg_response_time",       min_val |-> PyInt(0),  max_val |-> NoBound],
       [col |-> "nps_score",               min_val |-> PyInt(0),  max_val |-> PyInt(10)],
       [col |-> "scat_score",              min_val |-> PyInt(0),  max_val |-> PyInt(100)],
       [col |-> "risk_engine_score",       min_val |-> PyInt(0),  max_val |-> PyInt(1)] >>

\* the messages validate_dataframe appends to errors
EmptyFile               == [kind |-> "empty_file"]
MissingColumns(cols)    == [kind |-> "missing_columns", columns |-> cols]
EmptyAccountName        == [kind |-> "empty_account_name"]
NotNumeric(col)         == [kind |-> "not_numeric", col |-> col]
BelowMinimum(col, bound) == [kind |-> "below_minimum", col |-> col, bound |-> bound]
AboveMaximum(col, bound) == [kind |-> "above_maximum", col |-> col, bound |-> bound]

\* pd.to_numeric(cell, errors='coerce')
ToNumeric(cell) == IF IsNumber(cell) THEN cell ELSE NaN

\* col in df.columns: a column the table lacks is Absent in every row
HasColumn(table, col) == table[1][col] # Absent

\* one pass of the loop over numeric_columns: at most one message per column
ColumnErrors(table, c) ==
    LET numeric_vals == [i \in 1..Len(table) |-> ToNumeric(table[i][c.col])]
        Number(i)    == numeric_vals[i] # NaN
    IN  IF ~HasColumn(table, c.col) THEN << >>
        ELSE IF \A i \in 1..Len(table) : ~Number(i)
        THEN << NotNumeric(c.col) >>
        ELSE IF /\ c.min_val # NoBound
                /\ \E i \in 1..Len(table) : Number(i) /\ numeric_vals[i].v < c.min_val.v
        THEN << BelowMinimum(c.col, c.min_val) >>
        ELSE IF /\ c.max_val # NoBound
                /\ \E i \in 1..Len(table) : Number(i) /\ numeric_vals[i].v > c.max_val.v
        THEN << AboveMaximum(c.col, c.max_val) >>
        ELSE << >>

RECURSIVE NumericErrors(_, _)
NumericErrors(table, k) ==
    IF k > Len(numeric_columns) THEN << >>
    ELSE ColumnErrors(table, numeric_columns[k]) \o NumericErrors(table, k + 1)

\* (len(errors) == 0, errors)
Validation(errors) == [is_valid |-> errors = << >>, errors |-> errors]

validate_dataframe(table) ==
    IF Len(table) = 0                       \* df is None or df.empty
    THEN Validation(<< EmptyFile >>)
    ELSE LET missing_columns == { col \in REQUIRED_COLUMNS : ~HasColumn(table, col) }
         IN  IF missing_columns # {}
             THEN Validation(<< MissingColumns(missing_columns) >>)
             ELSE Validation(
                    (IF \E i \in 1..Len(table) :
                           table[i].account_name \in { NaN, Str("") }
                     THEN << EmptyAccountName >> ELSE << >>)
                    \o NumericErrors(table, 1))

\* rows of an uploaded spreadsheet
MaxRows == 2

UploadedRow(i, dropped, nps, users, name) ==
    [ f \in DOMAIN HealthyRecord |->
        IF f \in dropped THEN Absent
        ELSE IF f = "nps_score" THEN nps
        ELSE IF f = "active_users" THEN users
        ELSE IF f = "account_name" THEN (IF i = 1 THEN name ELSE AccountName(i))
        ELSE HealthyRecord[f] ]

\* the files a user may upload: no rows, or MaxRows rows whose satisfaction,
\* active-users and account-name cells vary and which may lack a column
UploadedTables ==
    LET Rows == 1..MaxRows
        NpsCells  == { PyInt(8), PyInt(-1), PyInt(11), Str("n/a"), NaN }
        UserCells == { PyInt(50), PyInt(-5), Str("n/a") }
        NameCells == { Str("Acme"), Str(""), NaN }
        DroppedColumns == { {}, {"plan_type"}, {"nps_score"} }
    IN  { NoDf } \cup
        { [ i \in Rows |-> UploadedRow(i, dropped, nps[i], users[i], name) ] :
            dropped \in DroppedColumns, nps \in [Rows -> NpsCells],
            users \in [Rows -> UserCells], name \in NameCells }

----------------------------------------------------------------------------
(* app.py: the session's actions *)

SessionAtRest ==
    /\ df = NoDf
    /\ generated_qbrs = [a \in Accounts |-> NoEntry]
    /\ selected_accounts = << >>
    /\ idx = 0
    /\ batch_results = [a \in Accounts |-> NoEntry]
    /\ pc = "idle"
    /\ single_error = NoEntry
    /\ visited = << >>
    /\ backend_failed = {}

JudgeAtRest ==
    /\ response = NoResponse
    /\ verdict = NoVerdict
    /\ regenerations = 0

Interactive == pc \in {"idle", "batch_done", "abandoned"}

\* the locals of the batch view do not outlive the script run
BatchLocalsDropped ==
    /\ selected_accounts' = << >>
    /\ idx' = 0
    /\ batch_results' = [a \in Accounts |-> NoEntry]
    /\ visited' = << >>
    /\ backend_failed' = {}

\* a spreadsheet without its plan_type column
RejectedDataset ==
    [a \in Accounts |-> [Dataset("q3")[a] EXCEPT !.plan_type = Absent]]

\* lines 641-710: a file is offered; it becomes the session's dataset when
\* validate_dataframe accepts it, otherwise the run shows the errors and stops
\* short of the main view (its local df stays None)
LoadData(ds) ==
    /\ Interactive \/ pc = "rejected"
    /\ IF validate_dataframe(ds).is_valid
       THEN df' = ds /\ pc' = "idle"
       ELSE df' = df /\ pc' = "rejected"
    /\ single_error' = NoEntry
    /\ BatchLocalsDropped
    /\ UNCHANGED << generated_qbrs, deriveVars, judgeVars >>

\* lines 712-713: the rejected file is withdrawn; the run falls back on
\* st.session_state.df
RemoveUpload ==
    /\ pc = "rejected"
    /\ pc' = "idle"
    /\ UNCHANGED << df, generated_qbrs, selected_accounts, idx, batch_results,
                    single_error, visited, backend_failed, deriveVars, judgeVars >>

\* st.error(f"Error generating QBR: {e}") for the selected account (line 853)
SingleError(account, outcome) ==
    IF outcome.ok THEN NoEntry ELSE [account |-> account, error |-> ErrorMessage(outcome.val)]

\* lines 836-856: the Generate button of the single-account view; on an
\* exception the error is shown and the run stops
GenerateSingle(account, backend) ==
    /\ Interactive
    /\ df # NoDf
    /\ LET outcome == generate_structured_qbr(df[account], backend)
       IN  /\ generated_qbrs' = Cached(generated_qbrs, account, outcome)
           /\ single_error' = SingleError(account, outcome)
    /\ pc' = "idle"
    /\ BatchLocalsDropped
    /\ UNCHANGED << df, deriveVars, judgeVars >>

\* lines 1039-1055: the Generate All button
BatchStart(sel) ==
    /\ Interactive
    /\ df # NoDf
    /\ selected_accounts' = sel
    /\ idx' = 0
    /\ batch_results' = [a \in Accounts |-> NoEntry]
    /\ visited' = << >>
    /\ backend_failed' = {}
    /\ single_error' = NoEntry
    /\ pc' = "batch"
    /\ UNCHANGED << df, generated_qbrs, deriveVars, judgeVars >>

\* lines 1057-1074: one iteration of the batch loop
BatchStep(backend) ==
    /\ pc = "batch"
    /\ idx < Len(selected_accounts)
    /\ LET account == selected_accounts[idx + 1]
           outcome == generate_structured_qbr(df[account], backend)
       IN  /\ batch_results' = [batch_results EXCEPT ![account] = BatchResult(outcome)]
           /\ generated_qbrs' = Cached(generated_qbrs, account, outcome)
           /\ idx' = LoopNext(idx, Len(selected_accounts), outcome)
           /\ visited' = Append(visited, account)
           /\ backend_failed' = IF backend.kind = "raise"
                                THEN backend_failed \cup {account}
                                ELSE backend_failed
    /\ UNCHANGED << df, selected_accounts, pc, single_error, deriveVars, judgeVars >>

\* the user touches a widget while the loop runs: the run is stopped at the
\* loop's next status update (lines 1058 and 1073) and the script starts over
AbandonBatch ==
    /\ pc = "batch"
    /\ pc' = "abandoned"
    /\ BatchLocalsDropped
    /\ UNCHANGED << df, generated_qbrs, single_error, deriveVars, judgeVars >>

\* line 1076: the loop is over
BatchFinish ==
    /\ pc = "batch"
    /\ idx >= Len(selected_accounts)
    /\ pc' = "batch_done"
    /\ UNCHANGED << df, generated_qbrs, selected_accounts, idx, batch_results,
                    single_error, visited, backend_failed, deriveVars, judgeVars >>

Init ==
    /\ client_data = HealthyRecord
    /\ result = NoResult
    /\ SessionAtRest
    /\ JudgeAtRest

Next ==
    \/ \E ds \in Datasets \cup { RejectedDataset } : LoadData(ds)
    \/ RemoveUpload
    \/ \E a \in Accounts, b \in BackendOutcomes : GenerateSingle(a, b)
    \/ \E sel \in Selections : BatchStart(sel)
    \/ \E b \in BackendOutcomes : BatchStep(b)
    \/ AbandonBatch
    \/ BatchFinish

Spec == Init /\ [][Next]_vars

----------------------------------------------------------------------------
(* Specification of the pure derivation functions *)

\* each behaviour is one call of one function on one record
Call(fn, outcome) == [fn |-> fn, ok |-> outcome.ok, val |-> outcome.val]

InitDerive ==
    /\ client_data \in Records
    /\ result = NoResult
    /\ SessionAtRest
    /\ JudgeAtRest

Classify ==
    /\ result = NoResult
    /\ result' = Call("classify_story_type", Returned(classify_story_type(client_data)))
    /\ UNCHANGED << client_data, sessionVars, judgeVars >>

ExtractMetrics ==
    /\ result = NoResult
    /\ result' = Call("_extract_metrics", _extract_metrics(client_data))
    /\ UNCHANGED << client_data, sessionVars, judgeVars >>

IdentifyRisks ==
    /\ result = NoResult
    /\ result' = Call("_identify_risks", _identify_risks(client_data))
    /\ UNCHANGED << client_data, sessionVars, judgeVars >>

BuildRecommendations ==
    /\ result = NoResult
    /\ result' = Call("_build_recommendations", _build_recommendations(client_data))
    /\ UNCHANGED << client_data, sessionVars, judgeVars >>

NextDerive == Classify \/ ExtractMetrics \/ IdentifyRisks \/ BuildRecommendations

SpecDerive == InitDerive /\ [][NextDerive]_vars

----------------------------------------------------------------------------
(* Specification of one generation: the prompt helpers, the confidence score
   and the assembly of the document *)

InitGenerate ==
    /\ client_data \in GenerationRecords
    /\ result = NoResult
    /\ SessionAtRest
    /\ JudgeAtRest

FullQbrPrompt ==
    /\ result = NoResult
    /\ result' = Call("get_full_qbr_prompt", get_full_qbr_prompt(client_data))
    /\ UNCHANGED << client_data, sessionVars, judgeVars >>

InsightPrompt ==
    /\ result = NoResult
    /\ result' = Call("get_insight_prompt", get_insight_prompt(client_data))
    /\ UNCHANGED << client_data, sessionVars, judgeVars >>

RecommendationPrompt ==
    /\ result = NoResult
    /\ result' = Call("get_recommendation_prompt", get_recommendation_prompt(client_data))
    /\ UNCHANGED << client_data, sessionVars, judgeVars >>

CalculateConfidence ==
    /\ result = NoResult
    /\ result' = Call("_calculate_confidence", _calculate_confidence(client_data))
    /\ UNCHANGED << client_data, sessionVars, judgeVars >>

\* one generation; the backend raises or returns one of the documents
GenerateStructuredQbr(backend) ==
    /\ result = NoResult
    /\ result' = Call("generate_structured_qbr",
                      generate_structured_qbr(client_data, backend))
    /\ UNCHANGED << client_data, sessionVars, judgeVars >>

NextGenerate ==
    \/ FullQbrPrompt \/ InsightPrompt \/ RecommendationPrompt
    \/ CalculateConfidence
    \/ \E backend \in { [kind |-> "raise"] } \cup
                       { [kind |-> "text", content |-> m] : m \in Markdowns } :
          GenerateStructuredQbr(backend)

SpecGenerate == InitGenerate /\ [][NextGenerate]_vars

----------------------------------------------------------------------------
(* Specification of validate_dataframe: one uploaded file per behaviour *)

ValidateUpload(table) ==
    /\ result = NoResult
    /\ pc = "idle"
    /\ LET validation == validate_dataframe(table)
       IN  /\ result' = Call("validate_dataframe",
                             Returned([temp_df |-> table, errors |-> validation.errors]))
           /\ IF validation.is_valid
              THEN df' = table /\ pc' = "idle"
              ELSE df' = df /\ pc' = "rejected"
    /\ UNCHANGED << client_data, generated_qbrs, selected_accounts, idx,
                    batch_results, single_error, visited, backend_failed, judgeVars >>

NextIngest == \E table \in UploadedTables : ValidateUpload(table)

SpecIngest == Init /\ [][NextIngest]_vars

----------------------------------------------------------------------------
(* QBRValidator: the judge's reply, as a sequence of tokens *)

\* longest judge reply considered, in tokens
MaxReplyLen == 4

\* "txt": text that is not JSON; "{" and "}"; members of the JSON object:
\*   vp_true / vp_false / vp_yes : "validation_passed": true / false / "yes"
\*   ci                          : "critical_issues": ["..."]
\* a "{" inside the object opens the value of a member such as "checks"
Tokens == { "txt", "{", "}", "vp_true", "vp_false", "vp_yes", "ci" }
Members == { "vp_true", "vp_false", "vp_yes", "ci" }

ReplyTexts == UNION { [1..n -> Tokens] : n \in 0..MaxReplyLen }

\* llm.invoke either raises or returns a message with this content
Responses == { [kind |-> "raise"] } \cup { [kind |-> "text", content |-> c] : c \in ReplyTexts }

PyBool(b) == [t |-> "bool", b |-> b]
None      == [t |-> "None"]

\* re.search(r'\{[\s\S]*\}', text): greedy, first "{" to last "}"
HasJsonMatch(text) ==
    \E i, j \in 1..Len(text) : i < j /\ text[i] = "{" /\ text[j] = "}"

JsonMatch(text) ==
    LET first == CHOOSE i \in 1..Len(text) :
                     text[i] = "{" /\ \A k \in 1..(i - 1) : text[k] # "{"
        last  == CHOOSE j \in 1..Len(text) :
                     text[j] = "}" /\ \A k \in (j + 1)..Len(text) : text[k] # "}"
    IN  SubSeq(text, first, last)

\* nesting depth after the first n tokens
RECURSIVE Depth(_, _)
Depth(str, n) ==
    IF n = 0 THEN 0
    ELSE Depth(str, n - 1) + (IF str[n] = "{" THEN 1 ELSE IF str[n] = "}" THEN -1 ELSE 0)

\* json.loads accepts str: one object, nested objects balanced, nothing but
\* members and objects inside
IsJsonObject(str) ==
    /\ Len(str) >= 2
    /\ str[1] = "{"
    /\ \A n \in 1..(Len(str) - 1) : Depth(str, n) >= 1
    /\ Depth(str, Len(str)) = 0
    /\ \A n \in 1..Len(str) : str[n] # "txt"

\* the top-level members of the parsed object, in order
TopLevel(str) ==
    SelectSeq([n \in 1..Len(str) |-> IF Depth(str, n) = 1 /\ str[n] \in Members
                                     THEN str[n] ELSE "-"],
              LAMBDA m : m # "-")

\* data.get('validation_passed', False): the last occurrence of a key wins
GetValidationPassed(members) ==
    LET vps == SelectSeq(members, LAMBDA m : m \in {"vp_true", "vp_false", "vp_yes"})
    IN  IF vps = << >> THEN PyBool(FALSE)
        ELSE CASE vps[Len(vps)] = "vp_true"  -> PyBool(TRUE)
               [] vps[Len(vps)] = "vp_false" -> PyBool(FALSE)
               [] vps[Len(vps)] = "vp_yes"   -> Str("yes")

\* data.get('critical_issues', [])
GetCriticalIssues(members) ==
    IF InSeq("ci", members) THEN << "issue reported by the judge" >> ELSE << >>

ValidationResult(passed, critical_issues, raw_response, error) ==
    [passed |-> passed, critical_issues |-> critical_issues,
     raw_response |-> raw_response, error |-> error]

\* ValidationResult.get_status_message: "Quality verified" or "Passed with n
\* warning(s)" when passed is truthy (the warnings are not told apart here),
\* otherwise "Validation failed"
get_status_message(v) ==
    LET truthy == v.passed = PyBool(TRUE) \/ (v.passed.t = "str" /\ v.passed.n # "")
    IN  IF truthy THEN "Passed" ELSE "Validation failed"

\* no JSON object in the reply treated as an empty object
_parse_validation_response_lenient(response_text) ==
    IF ~HasJsonMatch(response_text)
    THEN Returned(ValidationResult(PyBool(FALSE), << >>, Text(response_text), None))
    ELSE LET json_str == JsonMatch(response_text)
         IN  IF IsJsonObject(json_str)
             THEN Returned(ValidationResult(
                      GetValidationPassed(TopLevel(json_str)),
                      GetCriticalIssues(TopLevel(json_str)),
                      Text(response_text), None))
             ELSE Returned(ValidationResult(
                      PyBool(FALSE), << "Failed to parse validation response" >>,
                      Text(response_text), Str("JSONDecodeError")))

_parse_validation_response(response_text) ==
    IF ~HasJsonMatch(response_text)
    THEN Raised("ValueError")                \* "No JSON found in response"
    ELSE LET json_str == JsonMatch(response_text)
         IN  IF IsJsonObject(json_str)
             THEN Returned(ValidationResult(
                      GetValidationPassed(TopLevel(json_str)),
                      GetCriticalIssues(TopLevel(json_str)),
                      Text(response_text), None))
             ELSE Returned(ValidationResult(
                      PyBool(FALSE), << "Failed to parse validation response" >>,
                      Text(response_text), Str("JSONDecodeError")))

\* a failed validation reported without its error
ValidationError_unsignalled(exc) ==
    ValidationResult(PyBool(FALSE), << "Validation error" >>, None, None)

\* the except branch of validate
ValidationError(exc) ==
    ValidationResult(PyBool(FALSE), << "Validation error" >>, None, Str(exc))

validate(reply) ==
    IF reply.kind = "raise"
    THEN ValidationError("backend")
    ELSE LET parsed == _parse_validation_response(reply.content)
         IN  IF parsed.ok THEN parsed.val ELSE ValidationError(parsed.val)

\* QBRValidator.MAX_RETRIES, "Maximum regeneration attempts before showing
\* with warnings"; no method reads it
MAX_RETRIES == 2

\* QBRValidator.get_regeneration_hints: the blocking issues under a heading
\* (improvement hints and checks are not part of the verdicts considered)
get_regeneration_hints(validation_result) ==
    IF validation_result.critical_issues # << >>
    THEN << "CRITICAL - You MUST fix these issues:" >> \o validation_result.critical_issues
    ELSE << >>

----------------------------------------------------------------------------
(* Specification of the judge *)

\* regenerations of one document that are followed
MaxRegenerations == 3

InitJudge ==
    /\ client_data = HealthyRecord
    /\ result = NoResult
    /\ SessionAtRest
    /\ JudgeAtRest

\* one call of validate, in which the judge's llm.invoke gives reply
ValidateReply(reply) ==
    /\ response = NoResponse
    /\ response' = reply
    /\ verdict' = validate(reply)
    /\ UNCHANGED << deriveVars, sessionVars, regenerations >>

\* each behaviour is one call of validate
Validate == \E reply \in Responses : ValidateReply(reply)

\* the hints for regenerating a document whose verdict failed are asked for;
\* the regenerated document then awaits its own validation
GetRegenerationHints ==
    /\ response # NoResponse
    /\ get_status_message(verdict) = "Validation failed"
    /\ regenerations < MaxRegenerations
    /\ result' = Call("get_regeneration_hints", Returned(get_regeneration_hints(verdict)))
    /\ regenerations' = regenerations + 1
    /\ response' = NoResponse
    /\ verdict' = NoVerdict
    /\ UNCHANGED << client_data, sessionVars >>

NextJudge == Validate

SpecJudge == InitJudge /\ [][NextJudge]_vars

\* a document validated, regenerated with the hints and validated again; the
\* judge's replies are the shorter ones
NextRegenerate ==
    \/ \E reply \in { r \in Responses :
                         r.kind = "raise" \/ Len(r.content) < MaxReplyLen } :
          ValidateReply(reply)
    \/ GetRegenerationHints

SpecRegenerate == InitJudge /\ [][NextRegenerate]_vars

----------------------------------------------------------------------------
(* Properties of the derivation functions *)

\* the canonical fraction of a fractional field: a magnitude above 1 is a percentage
CanonFraction(x) == IF Abs(x.v) > Dec(1, 1) THEN x.v \div 100 ELSE x.v
\* the same quantity in percent
CanonPercent(x)  == IF Abs(x.v) > Dec(1, 1) THEN x.v ELSE x.v * 100

AtRiskCondition(d) ==
    \/ d.risk_engine_score.v >= Dec(1, 2)
    \/ CanonFraction(d.usage_growth_qoq) < -Dec(1, 10)
    \/ d.nps_score.v < Dec(6, 1)
GrowthCondition(d) ==
    /\ d.risk_engine_score.v < Dec(3, 10)
    /\ CanonFraction(d.usage_growth_qoq) > Dec(1, 10)
    /\ CanonFraction(d.automation_adoption_pct) > Dec(1, 2)
    /\ d.nps_score.v > Dec(7, 1)
TurnaroundCondition(d) ==
    /\ d.scat_score.v < Dec(60, 1)
    /\ CanonFraction(d.usage_growth_qoq) > 0

ReturnedFrom(fn) == result.fn = fn /\ result.ok

\* C1: classify_story_type applies its four rules first-match-wins: at_risk,
\* then growth, then turnaround, else stable; a record meeting both the growth
\* and the turnaround condition is growth.
C1_ClassifierPriority ==
    (ReturnedFrom("classify_story_type") /\ IsComplete(client_data)) =>
        result.val =
            IF AtRiskCondition(client_data) THEN "at_risk"
            ELSE IF GrowthCondition(client_data) THEN "growth"
            ELSE IF TurnaroundCondition(client_data) THEN "turnaround"
            ELSE "stable"

C1_Witness ==
    /\ ReturnedFrom("classify_story_type")
    /\ IsComplete(client_data)
    /\ GrowthCondition(client_data)
    /\ TurnaroundCondition(client_data)
    /\ result.val = "growth"

PriorityRank(p) == IF p = "immediate" THEN 0 ELSE IF p = "short-term" THEN 1 ELSE 2

\* C4: the returned recommendations are the top 3 by priority, so a triggered
\* immediate action is never dropped while a lower-priority action is kept.
C4_ImmediateNeverDropped ==
    ReturnedFrom("_build_recommendations") =>
        LET triggered == TriggeredActions(client_data)
        IN  \A i \in 1..Len(triggered) :
                (triggered[i].priority = "immediate" /\ ~InSeq(triggered[i], result.val))
                    => \A j \in 1..Len(result.val) :
                           PriorityRank(result.val[j].priority) = 0

\* C5: the returned list has at least 3 recommendations, also when 0 or 1 rules fire.
C5_BackfilledToThree ==
    ReturnedFrom("_build_recommendations") => Len(result.val) >= 3

\* C6: _build_recommendations returns between 1 and 3 recommendations.
C6_OneToThree ==
    ReturnedFrom("_build_recommendations") =>
        (Len(result.val) >= 1 /\ Len(result.val) <= 3)

\* no rule fired and the generic follow-up is the only recommendation
C6_Witness ==
    /\ ReturnedFrom("_build_recommendations")
    /\ IsComplete(client_data)
    /\ TriggeredActions(client_data) = << >>
    /\ result.val = << QuarterlySuccessReview >>

HasRisk(risks, title) == \E i \in 1..Len(risks) : risks[i].risk_title = title

\* C7: each of the five checks of _identify_risks decides alone whether its
\* item is in the returned list.
C7_IndependentChecks ==
    (ReturnedFrom("_identify_risks") /\ IsComplete(client_data)) =>
        LET d == client_data
            risks == result.val
        IN  /\ HasRisk(risks, "Elevated Churn Risk")
                <=> d.risk_engine_score.v >= Dec(1, 2)
            /\ HasRisk(risks, "High Support Volume")
                <=> d.tickets_last_quarter.v > Dec(50, 1)
            /\ HasRisk(risks, "Usage Decline")
                <=> CanonPercent(d.usage_growth_qoq) < -Dec(5, 1)
            /\ HasRisk(risks, "Customer Dissatisfaction")
                <=> d.nps_score.v < Dec(6, 1)
            /\ HasRisk(risks, "Competitive Threat")
                <=> AnyKeyword(Lower(d.feedback_summary.s), RiskKeywords)

\* C8: every produced risk item has the severity of the threshold table, and
\* none has severity low.
C8_SeverityTable ==
    (ReturnedFrom("_identify_risks") /\ IsComplete(client_data)) =>
        LET d == client_data
        IN  \A i \in 1..Len(result.val) :
              LET item == result.val[i]
                  high == CASE item.risk_title = "Elevated Churn Risk" ->
                                   d.risk_engine_score.v >= Dec(7, 10)
                            [] item.risk_title = "High Support Volume" ->
                                   d.tickets_last_quarter.v > Dec(80, 1)
                            [] item.risk_title = "Usage Decline" ->
                                   CanonPercent(d.usage_growth_qoq) < -Dec(15, 1)
                            [] item.risk_title = "Customer Dissatisfaction" ->
                                   d.nps_score.v < Dec(5, 1)
                            [] item.risk_title = "Competitive Threat" -> TRUE
              IN  item.severity = (IF high THEN "high" ELSE "medium")

\* a usage decline of exactly 15% (medium) next to a high churn risk
C8_Witness ==
    /\ ReturnedFrom("_identify_risks")
    /\ IsComplete(client_data)
    /\ CanonPercent(client_data.usage_growth_qoq) = -Dec(15, 1)
    /\ \E i \in 1..Len(result.val) :
          result.val[i].risk_title = "Usage Decline" /\ result.val[i].severity = "medium"
    /\ \E i \in 1..Len(result.val) :
          result.val[i].risk_title = "Elevated Churn Risk" /\ result.val[i].severity = "high"

\* the record field a metric highlight reports
MetricField(name) ==
    CASE name = "Usage Growth (QoQ)"  -> "usage_growth_qoq"
      [] name = "Automation Adoption" -> "automation_adoption_pct"
      [] name = "NPS Score"           -> "nps_score"
      [] name = "Active Users"        -> "active_users"

\* C9: every risk item and metric highlight cites a field present in the
\* record, with exactly the input value of that field.
C9_ExactCitation ==
    /\ ReturnedFrom("_identify_risks") =>
          \A i \in 1..Len(result.val) :
              LET sig == result.val[i].data_signal
              IN  /\ client_data[sig.field] # Absent
                  /\ sig.value = client_data[sig.field]
    /\ ReturnedFrom("_extract_metrics") =>
          \A i \in 1..Len(result.val) :
              LET m == result.val[i]
              IN  /\ client_data[MetricField(m.metric_name)] # Absent
                  /\ m.value = client_data[MetricField(m.metric_name)]

\* the record with one fractional field given as the percentage 100 * x
AsPercentage(d, f) == [d EXCEPT ![f] = PyFloat(d[f].v * 100)]

\* x is a fraction whose percentage form has a magnitude above 1
FractionForm(x) ==
    /\ x.t \in {"int", "float"}
    /\ Abs(x.v) <= Dec(1, 1)
    /\ Abs(x.v * 100) > Dec(1, 1)

FractionalFields == { "usage_growth_qoq", "automation_adoption_pct" }

\* C10: a fractional field given as x and as 100 * x gives the same category,
\* the same risk items and the same recommendations.
C10_SameForBothForms ==
    \A f \in FractionalFields :
        (IsComplete(client_data) /\ FractionForm(client_data[f])) =>
            LET other == AsPercentage(client_data, f)
            IN  /\ ReturnedFrom("classify_story_type")
                      => result.val = classify_story_type(other)
                /\ ReturnedFrom("_identify_risks")
                      => result.val = _identify_risks(other).val
                /\ ReturnedFrom("_build_recommendations")
                      => result.val = _build_recommendations(other).val

----------------------------------------------------------------------------
(* Properties of the judge *)

\* the judge's reply is well-formed structured data
WellFormed(reply) ==
    /\ reply.kind = "text"
    /\ HasJsonMatch(reply.content)
    /\ IsJsonObject(JsonMatch(reply.content))

Validated == response # NoResponse

\* C2: a judge reply that is not well-formed (no JSON object, invalid JSON, or
\* a failed call) gives a verdict with passed = false and a non-empty
\* critical_issues list.
C2_FailClosed ==
    (Validated /\ ~WellFormed(response)) =>
        /\ verdict.passed = PyBool(FALSE)
        /\ Len(verdict.critical_issues) > 0

\* a reply without any JSON object has been judged
C2_Witness ==
    /\ Validated
    /\ response.kind = "text"
    /\ ~HasJsonMatch(response.content)
    /\ InSeq("vp_true", response.content)
    /\ verdict.passed = PyBool(FALSE)
    /\ verdict.error # None

----------------------------------------------------------------------------
(* Properties of the session *)

\* the generation for account a of the running batch succeeded
Succeeded(a) ==
    /\ a \notin backend_failed
    /\ \A b \in BackendOutcomes :
           b.kind = "text" => generate_structured_qbr(df[a], b).ok

\* a complete document of account a
CompleteDocument(doc, a) ==
    /\ doc # NoEntry
    /\ doc.account_name = AccountName(a)
    /\ doc.story_type \in {"growth", "turnaround", "stable", "at_risk"}
    /\ doc.raw_markdown \in Prose
    /\ Len(doc.key_metrics) = 4
    /\ Len(doc.recommendations) >= 1

\* C3: whatever accounts fail, the batch loop visits every selected account
\* once, in selection order; a failing account gets a failure message, and an
\* account whose generation succeeds has its document in the batch results
\* and in the session cache.
C3_BatchIsolation ==
    /\ pc \in {"batch", "batch_done"} =>
          /\ visited = SubSeq(selected_accounts, 1, idx)
          /\ \A i \in 1..idx :
                LET a == selected_accounts[i]
                IN  /\ a \in backend_failed => batch_results[a] = ErrorMessage("backend")
                    /\ Succeeded(a) =>
                          /\ CompleteDocument(generated_qbrs[a], a)
                          /\ batch_results[a] = Text(generated_qbrs[a].raw_markdown)
    /\ pc = "batch_done" => visited = selected_accounts

\* the backend failed on account #2 of a 3-account batch and #1 and #3 are done
C3_Witness ==
    /\ pc = "batch_done"
    /\ Len(selected_accounts) = 3
    /\ backend_failed = { selected_accounts[2] }
    /\ batch_results[selected_accounts[2]] = ErrorMessage("backend")
    /\ CompleteDocument(generated_qbrs[selected_accounts[1]], selected_accounts[1])
    /\ CompleteDocument(generated_qbrs[selected_accounts[3]], selected_accounts[3])
    /\ batch_results[selected_accounts[3]] = Text(generated_qbrs[selected_accounts[3]].raw_markdown)

----------------------------------------------------------------------------
(* The percent conventions of the prompt, the classifier and the extractor *)

\* classify_story_type: "Ensure growth is in decimal form"
ClassifierGrowth(d) ==
    LET growth == Get(d, "usage_growth_qoq", PyInt(0))
    IN  IF IsNumber(growth) /\ Abs(growth.v) > Dec(1, 1) THEN Over100(growth) ELSE growth

\* classify_story_type: "Ensure automation is in decimal form"
ClassifierAutomation(d) ==
    LET automation == Get(d, "automation_adoption_pct", PyInt(0))
    IN  IF IsNumber(automation) /\ automation.v > Dec(1, 1)
        THEN Over100(automation) ELSE automation

\* _identify_risks: growth in percent
ExtractorGrowth(d) ==
    LET growth == Get(d, "usage_growth_qoq", PyInt(0))
    IN  IF IsFloat(growth) /\ Abs(growth.v) <= Dec(1, 1) THEN Times100(growth) ELSE growth

\* _build_recommendations: automation in percent
ExtractorAutomation(d) ==
    LET automation == Get(d, "automation_adoption_pct", PyInt(0))
    IN  IF IsFloat(automation) /\ automation.v <= Dec(1, 1)
        THEN Times100(automation) ELSE automation

\* C11: for every record, the usage-growth and automation percentages written
\* into the generation prompt are the quantities classify_story_type (as a
\* fraction) and the extractor (in percent) evaluate after their own
\* normalization: the three never disagree.
C11_PromptMatchesRules ==
    ReturnedFrom("get_full_qbr_prompt") =>
        LET shown == result.val.values
        IN  /\ shown.usage_growth_qoq.v = ClassifierGrowth(client_data).v * 100
            /\ shown.usage_growth_qoq.v = ExtractorGrowth(client_data).v
            /\ shown.automation_adoption_pct.v = ClassifierAutomation(client_data).v * 100
            /\ shown.automation_adoption_pct.v = ExtractorAutomation(client_data).v

\* the numeric fields the rules read, and the functions that evaluate them
RequiredNumeric ==
    { "risk_engine_score", "usage_growth_qoq", "automation_adoption_pct", "nps_score",
      "scat_score", "tickets_last_quarter", "active_users" }
DerivationFunctions ==
    { "classify_story_type", "_extract_metrics", "_identify_risks",
      "_build_recommendations" }

\* C12: when a required numeric field (churn risk, growth, automation,
\* satisfaction, health score, tickets, active users) is absent from the record,
\* the derivation signals an error: it never returns a value computed on zero
\* or on another default.
C12_AbsentFieldIsAnError ==
    ( /\ result.fn \in DerivationFunctions
      /\ \E f \in RequiredNumeric : client_data[f] = Absent )
    => ~result.ok

PromptHelpers ==
    { "get_full_qbr_prompt", "get_insight_prompt", "get_recommendation_prompt" }

\* the value a prompt shows for field f is the record's own (growth and
\* automation possibly in their percent form)
OwnValue(d, f, shown) ==
    /\ d[f] # Absent
    /\ \/ shown = d[f]
       \/ /\ f \in { "usage_growth_qoq", "automation_adoption_pct" }
          /\ IsNumber(d[f])
          /\ shown = Times100(d[f])

\* C13: a prompt helper either substitutes every field its template references
\* with the record's own value or fails: for a record lacking a referenced
\* field no prompt is returned.
C13_PromptFilledOrFails ==
    (result.fn \in PromptHelpers /\ result.ok) =>
        \A f \in (DOMAIN result.val.values) \ { "tickets_per_user" } :
            OwnValue(client_data, f, result.val.values[f])

----------------------------------------------------------------------------
(* Properties of validate_dataframe *)

\* the cell is a number within the bounds of its column
InRange(cell, c) ==
    /\ IsNumber(cell)
    /\ c.min_val # NoBound => cell.v >= c.min_val.v
    /\ c.max_val # NoBound => cell.v <= c.max_val.v

\* a dataset without any violation
SoundDataset(table) ==
    /\ Len(table) > 0
    /\ \A col \in REQUIRED_COLUMNS : HasColumn(table, col)
    /\ \A i \in 1..Len(table) :
          /\ table[i].account_name \notin { NaN, Str("") }
          /\ \A k \in 1..Len(numeric_columns) :
                InRange(table[i][numeric_columns[k].col], numeric_columns[k])

\* C14: validate_dataframe rejects every dataset that lacks a required column,
\* has an empty account identifier, or has a numeric column containing any
\* non-numeric cell or any out-of-range value: the dataset the session holds
\* (the only one generation reads) is always a sound one.
C14_OnlySoundDataAccepted ==
    /\ df # NoDf => SoundDataset(df)
    /\ pc = "rejected" => result.val.errors # << >>

\* C15: validate_dataframe lists every violation as a separate message: a column
\* with values below its minimum and values above its maximum yields both
\* messages, and value violations are reported even when columns are missing.
C15_EveryViolationListed ==
    (result.fn = "validate_dataframe" /\ Len(result.val.temp_df) > 0) =>
        LET table == result.val.temp_df
            errors == result.val.errors
        IN  \A k \in 1..Len(numeric_columns) :
              LET c == numeric_columns[k]
                  Cell(i) == ToNumeric(table[i][c.col])
              IN  HasColumn(table, c.col) =>
                    /\ ( /\ c.min_val # NoBound
                         /\ \E i \in 1..Len(table) :
                               Cell(i) # NaN /\ Cell(i).v < c.min_val.v )
                       => InSeq(BelowMinimum(c.col, c.min_val), errors)
                    /\ ( /\ c.max_val # NoBound
                         /\ \E i \in 1..Len(table) :
                               Cell(i) # NaN /\ Cell(i).v > c.max_val.v )
                       => InSeq(AboveMaximum(c.col, c.max_val), errors)

----------------------------------------------------------------------------
(* Properties of the assembled document *)

\* the sentence the template holds for a category
CategorySentence(story_type) ==
    IF story_type = "growth" THEN "had an excellent quarter"
    ELSE IF story_type = "turnaround" THEN "shows signs of recovery"
    ELSE IF story_type = "stable" THEN "maintained consistent usage"
    ELSE "requires immediate attention"

\* the free-text cells of the record are texts (or missing), not empty cells
TextualRecord(d) == \A f \in TextFields : d[f] # NaN

\* C19: whatever prose the backend returns (an empty text and a text without a
\* summary section included), generate_structured_qbr returns a document whose
\* structured fields are all populated: a non-empty executive summary (taken
\* from the prose or else the template sentence of the category), one of the
\* four categories, and non-empty lists of metrics, recommendations and next
\* steps.
C19_DocumentPopulated ==
    result.fn = "generate_structured_qbr" =>
        IF result.ok
        THEN LET doc == result.val
             IN  /\ IF doc.executive_summary.t = "text"
                    THEN Len(doc.executive_summary.s) > 0
                    ELSE doc.executive_summary.sentence = CategorySentence(doc.story_type)
                 /\ doc.story_type \in {"growth", "turnaround", "stable", "at_risk"}
                 /\ Len(doc.key_metrics) > 0
                 /\ Len(doc.recommendations) > 0
                 /\ Len(doc.next_steps) > 0
                 /\ doc.raw_markdown \in Markdowns
        ELSE result.val = "backend" \/ ~TextualRecord(client_data)

\* a document made from an empty text carries the sentence of its category
C19_Witness ==
    /\ ReturnedFrom("generate_structured_qbr")
    /\ result.val.raw_markdown = M_empty
    /\ result.val.executive_summary.t = "sentence"
    /\ result.val.story_type = "at_risk"

\* the fields _calculate_confidence counts
PresentFields(d) ==
    { k \in 1..Len(required_fields) : d[required_fields[k]] # Absent }

\* C20: _calculate_confidence returns min(1.0, 0.9 * (present of the ten
\* required fields / 10) + 0.05 if the CRM notes exceed 50 characters + 0.05 if
\* the feedback exceeds 30 characters); the result lies in [0, 1], and the
\* computation changes nothing.
C20_ConfidenceFormula ==
    /\ [] ( ReturnedFrom("_calculate_confidence") =>
              LET notes    == Get(client_data, "crm_notes", Text(<< >>))
                  feedback == Get(client_data, "feedback_summary", Text(<< >>))
                  score    == 90 * Cardinality(PresentFields(client_data))
                              + (IF Len(notes.s) > 50 THEN 50 ELSE 0)
                              + (IF Len(feedback.s) > 30 THEN 50 ELSE 0)
              IN  /\ result.val.v = Min(1000, score)
                  /\ result.val.v >= 0
                  /\ result.val.v <= 1000 )
    /\ [][ result'.fn = "_calculate_confidence" =>
              UNCHANGED << client_data, sessionVars, judgeVars >> ]_vars

\* every field present, long notes and long feedback: the score is 1.0; and a
\* record without any field scores 0
C20_Witness ==
    /\ ReturnedFrom("_calculate_confidence")
    /\ Cardinality(PresentFields(client_data)) = 10
    /\ Len(client_data.crm_notes.s) = 51
    /\ Len(client_data.feedback_summary.s) = 31
    /\ result.val.v = 1000

----------------------------------------------------------------------------
(* Properties of the session cache *)

\* C16: in the single-account view, after a failed generation the error is
\* shown and the session cache holds no document for that account, also when an
\* earlier generation for it had succeeded.
C16_NoStaleDocument ==
    single_error # NoEntry => generated_qbrs[single_error.account] = NoEntry

\* the documents a successful generation for account a can produce
DocumentsOf ==
    [ a \in Accounts |->
        UNION { { generate_structured_qbr(ds[a], b).val :
                    b \in { o \in BackendOutcomes :
                              generate_structured_qbr(ds[a], o).ok } } :
                ds \in Datasets } ]

\* the step is a failed generation, or abandons the running batch
FailsOrAbandons ==
    \/ single_error' # NoEntry
    \/ pc = "batch" /\ pc' = "abandoned"
    \/ /\ pc = "batch" /\ pc' = "batch" /\ idx' > idx
       /\ batch_results'[selected_accounts[idx + 1]].t = "error"

\* C17: in every reachable state, batches abandoned part-way and failed
\* generations included, each cache entry is a complete document produced by
\* one successful generation for that account key; a regeneration replaces an
\* entry in a single step, and the entries of completed accounts are unchanged
\* by later failures and by abandoning the batch.
C17_CacheHoldsWholeDocuments ==
    /\ [] ( \A a \in Accounts :
               generated_qbrs[a] # NoEntry => generated_qbrs[a] \in DocumentsOf[a] )
    /\ [][ /\ \A a \in Accounts :
                generated_qbrs[a] # NoEntry => generated_qbrs'[a] \in DocumentsOf[a]
           /\ FailsOrAbandons => generated_qbrs' = generated_qbrs ]_vars

\* a batch was abandoned after one account was done and before another was
C17_Witness ==
    /\ pc = "abandoned"
    /\ \E a, b \in Accounts :
          /\ generated_qbrs[a] \in DocumentsOf[a]
          /\ generated_qbrs[b] = NoEntry

----------------------------------------------------------------------------
(* Properties of the verdict's error field *)

\* C18: the verdict carries the could-not-verify signal (its error field is
\* set) exactly when the judge's reply could not be obtained or parsed; the
\* verdict of a well-formed reply never carries it.
C18_ErrorIffUnverifiable ==
    Validated => (verdict.error # None <=> ~WellFormed(response))

\* a well-formed reply that fails the draft: the verdict is a content failure
\* without the could-not-verify signal
C18_Witness ==
    /\ Validated
    /\ WellFormed(response)
    /\ verdict.passed = PyBool(FALSE)
    /\ verdict.error = None

----------------------------------------------------------------------------
(* Properties of the recommendation rules *)

\* plan = Basic, more than 10 tickets and automation adoption under 30%
UpgradeCondition(d) ==
    /\ IsComplete(d)
    /\ d.plan_type = Str("Basic")
    /\ d.tickets_last_quarter.v > Dec(10, 1)
    /\ CanonPercent(d.automation_adoption_pct) < Dec(30, 1)

\* C21: for a record with plan = Basic, tickets > 10 and automation < 30%,
\* _build_recommendations produces a plan-upgrade action, placed before the
\* training action (Automation Workshop).
C21_UpgradePlanRule ==
    LET \* the actions of the other rules and of the backfill
        OtherTitles == { "Executive Escalation Call", "Automation Workshop",
                         "Integration Deep-Dive", "Expansion Discussion",
                         "Support Ticket Review", "Quarterly Success Review" }
    IN  (ReturnedFrom("_build_recommendations") /\ UpgradeCondition(client_data)) =>
            \E i \in 1..Len(result.val) :
                /\ result.val[i].action_title \notin OtherTitles
                /\ \A j \in 1..Len(result.val) :
                       result.val[j].action_title = "Automation Workshop" => i < j

\* C22: for a record with churn risk >= 0.5, the recommendations returned by
\* _build_recommendations include the immediate-priority escalation action,
\* whatever other rules fire and after the truncation to 3.
C22_EscalationIncluded ==
    LET risk_score == Get(client_data, "risk_engine_score", PyInt(0))
    IN  ( /\ ReturnedFrom("_build_recommendations")
          /\ IsNumber(risk_score)
          /\ risk_score.v >= Dec(1, 2) ) =>
            \E i \in 1..Len(result.val) :
                /\ result.val[i].action_title = "Executive Escalation Call"
                /\ result.val[i].priority = "immediate"

\* four rules fire on a high-risk record, so the truncation drops an action
C22_Witness ==
    /\ ReturnedFrom("_build_recommendations")
    /\ IsComplete(client_data)
    /\ client_data.risk_engine_score.v >= Dec(1, 2)
    /\ Len(TriggeredActions(client_data)) > 3
    /\ Len(result.val) = 3
    /\ result.val[1] = ActionItem("Executive Escalation Call", "CSM", "immediate")

----------------------------------------------------------------------------
(* Properties of the tickets-per-user feature *)

\* C23: on a record whose active_users and tickets_last_quarter are numbers,
\* each prompt helper returns without an exception, and the tickets-per-user
\* value it shows is tickets / users (to the two decimals shown) when
\* active_users > 0 and 0 when active_users = 0.
C23_TicketsPerUser ==
    LET users   == client_data.active_users
        tickets == client_data.tickets_last_quarter
    IN  ( /\ result.fn \in PromptHelpers
          /\ IsNumber(users) /\ users.v >= 0
          /\ IsNumber(tickets) ) =>
            /\ result.ok
            /\ LET shown == result.val.values.tickets_per_user
               IN  /\ IsNumber(shown)
                   /\ users.v = 0 => shown.v = 0
                   /\ users.v > 0 =>
                          Abs(shown.v * users.v - tickets.v * 1000) <= 6 * users.v

\* active_users = 0 with 5 tickets gives 0
C23_Witness ==
    /\ result.fn = "get_full_qbr_prompt"
    /\ client_data.active_users = PyInt(0)
    /\ client_data.tickets_last_quarter = PyInt(5)
    /\ result.ok
    /\ result.val.values.tickets_per_user.v = 0

----------------------------------------------------------------------------
(* Properties of the assembled document *)

\* the fields of a document computed from the record
DerivedFields ==
    { "story_type", "key_metrics", "risks", "recommendations", "next_steps",
      "confidence_score" }

\* C24: the category, metric highlights, risk items, recommendations, next
\* steps and confidence score of a generated document are the same whatever
\* prose the backend returns: a second generate_structured_qbr run on the same
\* record, with any other prose, succeeds and yields identical values.
C24_DerivedFromRecordAlone ==
    (result.fn = "generate_structured_qbr" /\ result.ok) =>
        \A m \in Markdowns :
            LET second == generate_structured_qbr(client_data,
                                                  [kind |-> "text", content |-> m])
            IN  /\ second.ok
                /\ \A f \in DerivedFields : second.val[f] = result.val[f]

\* two runs on one record whose prose and executive summary differ
C24_Witness ==
    /\ result.fn = "generate_structured_qbr" /\ result.ok
    /\ result.val.raw_markdown = M_summary
    /\ LET second == generate_structured_qbr(client_data,
                                             [kind |-> "text", content |-> M_plain])
       IN  /\ second.ok
           /\ second.val.executive_summary # result.val.executive_summary

----------------------------------------------------------------------------
(* Properties of the executive summary *)

\* a heading line naming the summary
SummaryHeading(line) == StartsWith(line, "#") /\ Contains(Lower(line), W_summary)

\* the non-blank lines between heading k and the next heading
RECURSIVE Paragraph(_, _)
Paragraph(lines, k) ==
    IF k + 1 > Len(lines) \/ StartsWith(lines[k + 1], "#") THEN {}
    ELSE (IF Strip(lines[k + 1]) # << >> THEN { Strip(lines[k + 1]) } ELSE {})
         \cup Paragraph(lines, k + 1)

\* C25: when the prose has a heading containing 'summary' followed by a
\* non-blank paragraph before the next heading, the executive summary is text
\* taken from that paragraph and not the fallback sentence, also when an
\* earlier line containing 'summary' is followed by another heading and when
\* the paragraph itself contains the word.
C25_SummaryFromParagraph ==
    (result.fn = "generate_structured_qbr" /\ result.ok) =>
        LET lines    == Split[result.val.raw_markdown]
            sections == { k \in 1..Len(lines) :
                            SummaryHeading(lines[k]) /\ Paragraph(lines, k) # {} }
            summary  == result.val.executive_summary
        IN  sections # {} =>
                /\ summary.t = "text"
                /\ \E k \in sections : \E line \in Paragraph(lines, k) :
                       Contains(summary.s, line)

----------------------------------------------------------------------------
(* Properties of the cache across datasets *)

\* C26: loading a new dataset clears the cache, so in every reachable state a
\* cached document of an account was generated from that account's record in
\* the dataset now loaded.
C26_CacheOfLoadedDataset ==
    \A a \in Accounts :
        generated_qbrs[a] # NoEntry =>
            /\ df # NoDf
            /\ \E b \in BackendOutcomes :
                   LET outcome == generate_structured_qbr(df[a], b)
                   IN  outcome.ok /\ outcome.val = generated_qbrs[a]

----------------------------------------------------------------------------
(* Properties of generation on accepted data *)

\* the record is a row validate_dataframe accepts
AcceptedRecord(d) == validate_dataframe(<< d >>).is_valid

\* C27: for a record of a dataset validate_dataframe accepts, rows with an
\* empty relationship-notes or feedback cell included, the deterministic steps
\* of generate_structured_qbr do not raise: when the backend call succeeds a
\* document is returned.
C27_AcceptedRecordYieldsDocument ==
    ( /\ result.fn = "generate_structured_qbr"
      /\ AcceptedRecord(client_data) ) =>
        (result.ok \/ result.val = "backend")

\* C28: for a record of a dataset validate_dataframe accepts, when
\* classify_story_type returns at_risk, _identify_risks returns at least one
\* risk item for the same record.
C28_AtRiskHasARisk ==
    ( /\ result.fn = "_identify_risks"
      /\ AcceptedRecord(client_data)
      /\ classify_story_type(client_data) = "at_risk" ) =>
        (result.ok /\ Len(result.val) >= 1)

----------------------------------------------------------------------------
(* Properties of a passing verdict *)

\* C29: a verdict with passed = true has an empty critical_issues list, passed
\* is true only when the judge's reply carries the boolean true for
\* validation_passed, and a verdict whose status message is a passing one lists
\* no blocking issue.
C29_PassedWithoutBlockingIssues ==
    Validated =>
        /\ verdict.passed = PyBool(TRUE) =>
               /\ verdict.critical_issues = << >>
               /\ response.kind = "text" /\ InSeq("vp_true", response.content)
        /\ get_status_message(verdict) = "Passed" => verdict.critical_issues = << >>

----------------------------------------------------------------------------
(* Properties of repeated validation failures *)

\* C30: the validator is a circuit breaker: a document that keeps failing
\* validation is regenerated at most MAX_RETRIES times.
C30_CircuitBreaker == regenerations <= MAX_RETRIES

====
